---- MODULE Spec2Model ----
(***************************************************************************)
(* Model of the pincode sales map: the layered coordinate cache and the    *)
(* geocoder of utils/geocode.js, and the resolution loop (loadData) that   *)
(* the PincodeMap component starts whenever its source data changes.       *)
(*                                                                         *)
(* React state is modelled with batched updates: one handler produces one  *)
(* new sourceData, hence at most one new loadData run.  Every action is a  *)
(* run-to-the-next-await segment of the JavaScript it models.              *)
(*                                                                         *)
(* Spec is the loading and caching of the page.  ViewSpec is the derived   *)
(* views (filteredData, displayData) over the filter controls, on a page   *)
(* whose load has settled.  DerivedSpec is the same page with sales on a   *)
(* wider scale, for the values computed from displayData: the statistics,  *)
(* the marker styling, the heat buckets and the CSV export.  UploadSpec is  *)
(* the file input, the FileReader and the reset button.                    *)
(***************************************************************************)
EXTENDS Integers, Sequences, FiniteSets, TLC

\* ---- bounds of the model ------------------------------------------------
MaxLen == 2        \* records in one dataset
MaxBatches == 2    \* loadData runs unfinished at one time
MaxStarts == 3     \* loadData runs started in all
MaxReloads == 1    \* page reloads (memory layer cleared, storage kept)

\* ---- postal codes and coordinates ----------------------------------------
\* Two codes of the static table and one code only the service knows.
SeedCodes == {"110001", "560001"}
ApiCodes == {"999001"}
Codes == SeedCodes \cup ApiCodes
PreCode == "560001"   \* the code of the record that already carries coordinates
\* The codes of the records that come without coordinates.
DataCodes == {"110001", "999001"}

\* A coordinate is <<lat, lon>>; a number is written as its decimal string,
\* NaN and null are the JavaScript values of those names.
NaN == "NaN"
null == "null"
None == <<>>          \* absent entry / JavaScript null result
IsFinite(x) == x \notin {NaN, null}
FiniteCoords(c) == c # None /\ IsFinite(c[1]) /\ IsFinite(c[2])

pincodeCoordinates ==
  [c \in SeedCodes |->
     IF c = "110001" THEN <<"28.6139", "77.2090">> ELSE <<"12.9716", "77.5946">>]

\* What the lookup service holds for a code (its answer does not change).
ApiAnswer(c) == [lat |-> "11.0168", lon |-> "76.9558"]
ApiCoord(c) == <<ApiAnswer(c).lat, ApiAnswer(c).lon>>
NumericStrings == {"11.0168", "76.9558", "28.6139", "77.2090", "12.9716", "77.5946"}

\* parseFloat: a numeric string gives its number, anything else NaN.
parseFloat(s) == IF s \in NumericStrings THEN s ELSE NaN

\* JSON.stringify of a number: NaN is written as null.
JsonNumber(x) == IF x = NaN THEN null ELSE x

EmptyMap == [c \in Codes |-> None]

\* JSON.stringify(cache) followed by what JSON.parse reads back.
JsonStringify(cache) ==
  [c \in Codes |->
     IF cache[c] = None THEN None
     ELSE <<JsonNumber(cache[c][1]), JsonNumber(cache[c][2])>>]

\* ---- the durable layer ---------------------------------------------------
\* localStorage[STORAGE_KEY]: missing, unparseable text, the text "null",
\* the text of a JSON primitive (a number, a string), or a serialized mapping.
StorageKinds == {"missing", "corrupt", "null", "prim", "map"}
Stored(kind, m) == [kind |-> kind, map |-> m]

readStorageCache(sto) ==
  IF sto.kind \in {"missing", "corrupt"} THEN [kind |-> "obj", map |-> EmptyMap]
  ELSE IF sto.kind = "map" THEN [kind |-> "obj", map |-> sto.map]
  ELSE [kind |-> sto.kind, map |-> EmptyMap]   \* JSON.parse gave null or a primitive

writeStorageCache(sto, cache, writeOk) ==
  IF writeOk THEN Stored("map", JsonStringify(cache)) ELSE sto

\* ---- the cache ------------------------------------------------------------
\* Result: threw (TypeError), value (None = null), mem (the memory layer after).
getCachedCoordinates(mem, sto, p) ==
  IF mem[p] # None THEN [threw |-> FALSE, value |-> mem[p], mem |-> mem]
  ELSE LET storageCache == readStorageCache(sto) IN
       IF storageCache.kind = "null"
       THEN [threw |-> TRUE, value |-> None, mem |-> mem]
       ELSE IF storageCache.map[p] # None
       THEN [threw |-> FALSE, value |-> storageCache.map[p],
             mem |-> [mem EXCEPT ![p] = storageCache.map[p]]]
       ELSE [threw |-> FALSE, value |-> None, mem |-> mem]

\* Result: threw, mem, sto.  The module is strict-mode code: assigning a
\* property of null or of a primitive throws.
setCachedCoordinates(mem, sto, p, coords, writeOk) ==
  LET mem2 == [mem EXCEPT ![p] = coords]
      storageCache == readStorageCache(sto)
  IN IF storageCache.kind # "obj"
     THEN [threw |-> TRUE, mem |-> mem2, sto |-> sto]
     ELSE [threw |-> FALSE, mem |-> mem2,
           sto |-> writeStorageCache(sto, [storageCache.map EXCEPT ![p] = coords], writeOk)]

\* ---- geocodePincode ------------------------------------------------------
\* A slip: the static table is not consulted.
geocodePincodeCallNoSeed(mem, sto, p, writeOk) ==
  LET cached == getCachedCoordinates(mem, sto, p) IN
  IF cached.threw
  THEN [kind |-> "throw", branch |-> "none", coords |-> None, mem |-> cached.mem, sto |-> sto,
        set |-> "none", got |-> cached]
  ELSE IF cached.value # None
  THEN [kind |-> "return", branch |-> "cache", coords |-> cached.value,
        mem |-> cached.mem, sto |-> sto, set |-> "none", got |-> cached]
  ELSE [kind |-> "fetch", branch |-> "api", coords |-> None, mem |-> cached.mem, sto |-> sto,
        set |-> "none", got |-> cached]

\* The synchronous prefix of geocodePincode, up to its return or its fetch.
\* kind: "return" (branch says which return), "throw", "fetch"; set: whether
\* setCachedCoordinates was called ("none", "done", "threw"); got: what
\* getCachedCoordinates gave.
geocodePincodeCall(mem, sto, p, writeOk) ==
  LET cached == getCachedCoordinates(mem, sto, p) IN
  IF cached.threw
  THEN [kind |-> "throw", branch |-> "none", coords |-> None, mem |-> cached.mem, sto |-> sto,
        set |-> "none", got |-> cached]
  ELSE IF cached.value # None
  THEN [kind |-> "return", branch |-> "cache", coords |-> cached.value,
        mem |-> cached.mem, sto |-> sto, set |-> "none", got |-> cached]
  ELSE IF p \in DOMAIN pincodeCoordinates
  THEN LET w == setCachedCoordinates(cached.mem, sto, p, pincodeCoordinates[p], writeOk) IN
       IF w.threw
       THEN [kind |-> "throw", branch |-> "none", coords |-> None, mem |-> w.mem, sto |-> w.sto,
             set |-> "threw", got |-> cached]
       ELSE [kind |-> "return", branch |-> "seed", coords |-> pincodeCoordinates[p],
             mem |-> w.mem, sto |-> w.sto, set |-> "done", got |-> cached]
  ELSE [kind |-> "fetch", branch |-> "api", coords |-> None, mem |-> cached.mem, sto |-> sto,
        set |-> "none", got |-> cached]

\* What the fetch and response.json() can deliver.
\*  neterr: fetch rejects; badjson: json() rejects; notarray: null or an object;
\*  empty: []; ok: one item with lat and lon; nolatlon: one item without them.
Outcomes == {"neterr", "badjson", "notarray", "empty", "ok", "nolatlon"}
Payload(p, outcome) ==
  IF outcome = "ok" THEN <<ApiAnswer(p)>>
  ELSE IF outcome = "nolatlon" THEN <<[lat |-> "", lon |-> ""]>>
  ELSE <<>>

\* The rest of geocodePincode, from the fetch's settlement to the return.
\* Everything after the fetch is inside try/catch: the result is coords or None.
geocodePincodeFetched(mem, sto, p, outcome, writeOk) ==
  LET data == Payload(p, outcome) IN
  IF outcome \in {"neterr", "badjson", "notarray"} \/ Len(data) = 0
  THEN [coords |-> None, mem |-> mem, sto |-> sto, set |-> "none"]
  ELSE LET coords == <<parseFloat(data[1].lat), parseFloat(data[1].lon)>>
           w == setCachedCoordinates(mem, sto, p, coords, writeOk)
       IN IF w.threw
          THEN [coords |-> None, mem |-> w.mem, sto |-> w.sto, set |-> "threw"]
          ELSE [coords |-> coords, mem |-> w.mem, sto |-> w.sto, set |-> "done"]

\* geocodePincodeWithMeta: geocodePincode's result with the layer that gave it.
geocodePincodeWithMeta(branch) ==
  IF branch = "cache" THEN "cache" ELSE IF branch = "seed" THEN "seed" ELSE "api"

\* ---- records and datasets -------------------------------------------------
SalesOf(c) == IF c = "110001" THEN 300 ELSE 100
Rec(c) == [pincode |-> c, sales |-> SalesOf(c), coordinates |-> None]
PreRec == [pincode |-> PreCode, sales |-> 200, coordinates |-> pincodeCoordinates[PreCode]]

SeqsUpTo(S, n) == UNION {[1..k -> S] : k \in 0..n}
\* The bundled dataset (the data prop): any records, some may carry coordinates.
BundledSets == SeqsUpTo({Rec(c) : c \in DataCodes} \cup {PreRec}, MaxLen)
\* What parseCsvFile hands over: one record per postal code, none with
\* coordinates, at least one record.
UploadSets ==
  {s \in SeqsUpTo({Rec(c) : c \in DataCodes}, MaxLen) :
     Len(s) >= 1 /\ \A i, j \in 1..Len(s) : i # j => s[i].pincode # s[j].pincode}

\* ---- state -----------------------------------------------------------------
VARIABLES
  data,            \* the data prop (bundled dataset)
  uploadedData,    \* useState([])
  hasFile,         \* uploadMeta.hasFile
  geocodedData,    \* useState([])
  loading,         \* useState(true)
  geocodeProgress, \* useState({current, total, failures})
  memoryCache,     \* the module-level Map
  storage,         \* localStorage[STORAGE_KEY]
  batches,         \* the loadData runs, in start order; the last one is the current
  starts,          \* loadData runs started so far, over all page sessions
  reloads,         \* page reloads so far
  lastWriter,      \* history: what the run that last called a state setter was then
  apiSession,      \* history: codes resolved through the service in this page session
  apiStored,       \* history: codes so resolved whose durable write went through
  searchTerm,      \* useState(""): the text of the search box, a sequence of characters
  minSalesFilter,  \* useState(""): the text of the minimum-sales box
  maxSalesFilter,  \* useState(""): the text of the maximum-sales box
  limit,           \* useState("all"): the value of the limit select
  uploadError,     \* useState(""): the message of the last failed upload
  validRows,       \* uploadMeta.validRows
  isParsing,       \* useState(false)
  reader           \* the FileReader of handleUpload: "idle" or "reading"

filters == <<searchTerm, minSalesFilter, maxSalesFilter, limit>>
uploadControls == <<uploadError, validRows, isParsing, reader>>
vars == <<data, uploadedData, hasFile, geocodedData, loading, geocodeProgress,
          memoryCache, storage, batches, starts, reloads, lastWriter,
          apiSession, apiStored, searchTerm, minSalesFilter, maxSalesFilter, limit,
          uploadError, validRows, isParsing, reader>>

\* The messages an upload can leave in uploadError.
ParseFailed == "No valid rows found. Check pincode and sales values."
ReadFailed == "Failed to read the file. Please try again."

sourceData == IF hasFile THEN uploadedData ELSE data
current == Len(batches)
Progress(c, t, f) == [current |-> c, total |-> t, failures |-> f]

\* What is known about code p when a resolution of it starts.
PriorOf(p) ==
  (IF p \in apiSession THEN {"session"} ELSE {})
    \cup (IF p \in apiStored THEN {"stored"} ELSE {})

\* ---- loadData --------------------------------------------------------------
\* A segment works on st = [b, gd, gp, ld, mem, sto]: the run's locals, the
\* three pieces of React state it sets, and the two cache layers.

\* A slip: the progress is emitted before index is incremented.
EmitProgressStaleIndex(st) ==
  LET b == st.b
      p == Progress(b.index, b.geocodeTotal, b.failures)
  IN [st EXCEPT !.b.index = b.index + 1, !.b.emitted = Append(b.emitted, p), !.gp = p]

\* index += 1; setGeocodeProgress({ current: index, total: geocodeTotal, failures })
EmitProgress(st) ==
  LET b == st.b
      p == Progress(b.index + 1, b.geocodeTotal, b.failures)
  IN [st EXCEPT !.b.index = b.index + 1, !.b.emitted = Append(b.emitted, p), !.gp = p]

\* A slip: the record is kept but the list is not handed to the view.
PushRecordUnpublished(st, item) ==
  LET g == Append(st.b.geocoded, item)
  IN [st EXCEPT !.b.geocoded = g]

\* A slip: the record is added to the list the view holds.
PushRecordOntoVisible(st, item) ==
  LET g == Append(st.b.geocoded, item)
  IN [st EXCEPT !.b.geocoded = g, !.gd = Append(st.gd, item)]

\* geocoded.push(item); setGeocodedData([...geocoded])
PushRecord(st, item) ==
  LET g == Append(st.b.geocoded, item)
  IN [st EXCEPT !.b.geocoded = g, !.gd = g]

\* History of the setCachedCoordinates call of one resolution: whether it was
\* made and how it ended, whether setItem went through, and the entry of the
\* code in each layer when the call was over.
NoSet == [done |-> "none", writeOk |-> TRUE, mem |-> None, sto |-> None]
SetLog(done, writeOk, mem, sto, p) ==
  IF done = "none" THEN NoSet
  ELSE [done |-> done, writeOk |-> (done = "threw" \/ writeOk),
        mem |-> mem[p], sto |-> sto.map[p]]

\* (history) The cache get of a resolution of p: the entry of p in each layer
\* before it, whether it threw, its value, and the memory layer's entry after.
GetLog(mem, sto, p, got) ==
  [memory |-> mem[p],
   durable |-> IF sto.kind = "map" THEN sto.map[p] ELSE None,
   kind |-> sto.kind,
   threw |-> got.threw,
   value |-> got.value,
   after |-> got.mem[p],
   others |-> \A c \in Codes \ {p} : got.mem[c] = mem[c]]

\* One resolution as the run sees it: the code asked, the result of
\* geocodePincodeWithMeta, and (history) the lookup calls issued, the service's
\* outcome, what was known of the code when the resolution started, the cache
\* set it made and whether the run waited the 300 ms after it.
Resolution(p, coords, source, calls, set, get) ==
  [code |-> p, coords |-> coords, source |-> source, calls |-> calls,
   outcome |-> "", prior |-> PriorOf(p), set |-> set, delayed |-> FALSE, get |-> get]

\* After `await geocodePincodeWithMeta(item.pincode)`: lines 175-183.
AfterResult(st, coords) ==
  IF coords # None
  THEN PushRecord(st, [st.b.input[st.b.index + 1] EXCEPT !.coordinates = coords])
  ELSE [st EXCEPT !.b.failures = st.b.failures + 1]

\* The for-loop from the top of an iteration to the next await that gives way
\* to other tasks (the fetch; the timer is reached after it), or to the end of
\* loadData.  An await of a result that needed no fetch resumes in the same
\* task, before any handler, timer or response can run.
\* A slip: the loop waits after every record it looked up.
NeedsDelayAfterEveryLookup(source) == TRUE

\* if (result.source === "api"): the loop waits 300 ms before it goes on.
NeedsDelay(source) == source = "api"

\* await new Promise((resolve) => setTimeout(resolve, 300))
StartDelay(st) ==
  [st EXCEPT !.b.pc = "delay", !.b.results[Len(st.b.results)].delayed = TRUE]

\* A slip: a record that carries coordinates is looked up like any other.
CarriesCoordinatesIgnored(item) == FALSE

\* if (item.coordinates): the record is taken as it is.
CarriesCoordinates(item) == item.coordinates # None

\* A slip: the end of loadData is inside `if (sourceData.length > 0)`.
SettleOnlyWithRecords(st) ==
  IF Len(st.b.input) = 0 THEN [st EXCEPT !.b.pc = "done"]
  ELSE [st EXCEPT !.gd = st.b.geocoded, !.ld = FALSE, !.b.pc = "done"]

\* setGeocodedData(geocoded); setLoading(false): loadData returns.
Settle(st) == [st EXCEPT !.gd = st.b.geocoded, !.ld = FALSE, !.b.pc = "done"]

\* F(v), with v computed once.
Once(F(_), v) == CHOOSE out \in {F(x) : x \in {v}} : TRUE

RECURSIVE RunLoop(_, _)

\* Lines 174-189 with the result of the synchronous part of the lookup.
TakeResult(st, item, call, writeOk) ==
  LET r == Resolution(item.pincode, call.coords,
                      geocodePincodeWithMeta(call.branch),
                      IF call.kind = "fetch" THEN 1 ELSE 0,
                      SetLog(call.set, writeOk, call.mem, call.sto, item.pincode),
                      GetLog(st.mem, st.sto, item.pincode, call.got))
      s == [st EXCEPT !.mem = call.mem, !.sto = call.sto,
                      !.b.results = Append(st.b.results, r)]
  IN IF call.kind = "throw" THEN [s EXCEPT !.b.pc = "crashed"]
     ELSE IF call.kind = "fetch" THEN [s EXCEPT !.b.pc = "fetch"]
     ELSE IF NeedsDelay(r.source) THEN StartDelay(AfterResult(s, call.coords))
     ELSE RunLoop(EmitProgress(AfterResult(s, call.coords)), writeOk)

\* One pass of the for-loop body, or the end of loadData.
Iteration(st, writeOk) ==
  IF st.b.index >= Len(st.b.input)
  THEN Settle(st)
  ELSE LET item == st.b.input[st.b.index + 1] IN
       IF CarriesCoordinates(item)
       THEN RunLoop(EmitProgress(PushRecord(st, item)), writeOk)
       ELSE Once(LAMBDA call : TakeResult(st, item, call, writeOk),
                 geocodePincodeCall(st.mem, st.sto, item.pincode, writeOk))

RunLoop(st, writeOk) == Once(LAMBDA s : Iteration(s, writeOk), st)

\* loadData from its first line to its first await.
StartLoad(input, writeOk) ==
  LET geocodeTotal == Cardinality({i \in 1..Len(input) : input[i].coordinates = None})
      p0 == Progress(0, geocodeTotal, 0)
      b0 == [input |-> input, geocodeTotal |-> geocodeTotal, index |-> 0,
             geocoded |-> <<>>, failures |-> 0, pc |-> "start", results |-> <<>>,
             emitted |-> <<p0>>]
  IN RunLoop([b |-> b0, gd |-> geocodedData, gp |-> p0, ld |-> TRUE,
              mem |-> memoryCache, sto |-> storage], writeOk)

Here(b) == [b |-> b, gd |-> geocodedData, gp |-> geocodeProgress, ld |-> loading,
            mem |-> memoryCache, sto |-> storage]

Commit(st) ==
  /\ geocodedData' = st.gd
  /\ geocodeProgress' = st.gp
  /\ loading' = st.ld
  /\ memoryCache' = st.mem
  /\ storage' = st.sto

\* ---- actions ---------------------------------------------------------------
\* A run that has returned or thrown takes no further step; it is kept until
\* the next run starts.
Finished(b) == b.pc \in {"done", "crashed"}
Unfinished == SelectSeq(batches, LAMBDA b : ~Finished(b))
WriterRole(id) == IF id = current THEN "current" ELSE "superseded"

\* useEffect(..., [sourceData]): sourceData has changed, loadData() is called.
StartBatch(input, writeOk) ==
  /\ Len(Unfinished) < MaxBatches
  /\ starts < MaxStarts
  /\ starts' = starts + 1
  /\ \E st \in {StartLoad(input, writeOk)} :
       /\ batches' = Append(Unfinished, st.b)
       /\ Commit(st)
  /\ lastWriter' = "current"
  /\ UNCHANGED <<data, reloads, apiSession, apiStored>>
  /\ UNCHANGED filters

\* The effect of the first render.
Mount ==
  /\ Len(batches) = 0
  /\ \E writeOk \in BOOLEAN : StartBatch(data, writeOk)
  /\ UNCHANGED <<uploadedData, hasFile>>
  /\ UNCHANGED uploadControls

\* handleUpload with a file that parses: parseCsvFile sets the uploaded rows.
\* (In Spec the file is read and parsed in the step of the upload.)
UploadOk ==
  /\ Len(batches) > 0
  /\ \E rows \in UploadSets, writeOk \in BOOLEAN :
        /\ uploadedData' = rows
        /\ validRows' = Len(rows)
        /\ StartBatch(rows, writeOk)
  /\ hasFile' = TRUE
  /\ uploadError' = ""
  /\ UNCHANGED <<isParsing, reader>>

\* handleUpload with a file parseCsvFile rejects.
UploadFail ==
  /\ Len(batches) > 0
  /\ uploadedData' = <<>>
  /\ hasFile' = TRUE
  /\ validRows' = 0
  /\ uploadError' = ParseFailed
  /\ UNCHANGED <<isParsing, reader>>
  /\ StartBatch(<<>>, TRUE)

\* handleResetUpload: back to the bundled dataset.
ResetUpload ==
  /\ Len(batches) > 0
  /\ hasFile
  /\ uploadedData' = <<>>
  /\ hasFile' = FALSE
  /\ validRows' = 0
  /\ uploadError' = ""
  /\ UNCHANGED <<isParsing, reader>>
  /\ \E writeOk \in BOOLEAN : StartBatch(data, writeOk)

\* The lookup of run id settles: geocodePincode returns, loadData takes the
\* result (lines 175-183) and, its source being "api", awaits the timer.
FetchReturn(id) ==
  /\ batches[id].pc = "fetch"
  /\ \E outcome \in Outcomes, writeOk \in BOOLEAN :
       LET n == Len(batches[id].results)
           p == batches[id].results[n].code
           wait == NeedsDelay(batches[id].results[n].source)
       IN \E r \in {geocodePincodeFetched(memoryCache, storage, p, outcome, writeOk)} :
          \E s \in {[Here(batches[id]) EXCEPT !.mem = r.mem, !.sto = r.sto,
                                               !.b.results[n].coords = r.coords,
                                               !.b.results[n].outcome = outcome,
                                               !.b.results[n].set =
                                                  SetLog(r.set, writeOk, r.mem, r.sto, p)]} :
          \E st \in {IF wait THEN StartDelay(AfterResult(s, r.coords))
                      ELSE RunLoop(EmitProgress(AfterResult(s, r.coords)), writeOk)} :
            /\ batches' = [batches EXCEPT ![id] = st.b]
            /\ lastWriter' = IF r.coords # None \/ ~wait THEN WriterRole(id) ELSE lastWriter
            /\ Commit(st)
            /\ apiSession' = IF FiniteCoords(r.coords) THEN apiSession \cup {p} ELSE apiSession
            /\ apiStored' = IF FiniteCoords(r.coords) /\ writeOk
                            THEN apiStored \cup {p} ELSE apiStored
  /\ UNCHANGED <<data, uploadedData, hasFile, starts, reloads>>
  /\ UNCHANGED filters
  /\ UNCHANGED uploadControls

\* Run id resumes after the 300 ms timer: lines 188-189, then the loop goes on.
DelayDone(id) ==
  /\ batches[id].pc = "delay"
  /\ \E writeOk \in BOOLEAN :
       \E st \in {RunLoop(EmitProgress(Here(batches[id])), writeOk)} :
          /\ batches' = [batches EXCEPT ![id] = st.b]
          /\ lastWriter' = WriterRole(id)
          /\ Commit(st)
  /\ UNCHANGED <<data, uploadedData, hasFile, starts, reloads,
                 apiSession, apiStored>>
  /\ UNCHANGED filters
  /\ UNCHANGED uploadControls

\* The page is reloaded: module and component state start over, storage stays.
Reload ==
  /\ reloads < MaxReloads
  /\ Len(batches) > 0
  /\ reloads' = reloads + 1
  /\ starts' = starts
  /\ batches' = <<>>
  /\ memoryCache' = EmptyMap
  /\ uploadedData' = <<>>
  /\ hasFile' = FALSE
  /\ geocodedData' = <<>>
  /\ loading' = TRUE
  /\ geocodeProgress' = Progress(0, 0, 0)
  /\ lastWriter' = "none"
  /\ apiSession' = {}
  /\ searchTerm' = <<>>
  /\ minSalesFilter' = ""
  /\ maxSalesFilter' = ""
  /\ limit' = "all"
  /\ uploadError' = ""
  /\ validRows' = 0
  /\ isParsing' = FALSE
  /\ reader' = "idle"
  /\ UNCHANGED <<data, storage, apiStored>>

Init ==
  /\ data \in BundledSets
  /\ uploadedData = <<>>
  /\ hasFile = FALSE
  /\ geocodedData = <<>>
  /\ loading = TRUE
  /\ geocodeProgress = Progress(0, 0, 0)
  /\ memoryCache = EmptyMap
  /\ storage \in {Stored(k, EmptyMap) : k \in StorageKinds \ {"map"}}
  /\ batches = <<>>
  /\ starts = 0
  /\ reloads = 0
  /\ lastWriter = "none"
  /\ apiSession = {}
  /\ apiStored = {}
  /\ searchTerm = <<>>
  /\ minSalesFilter = ""
  /\ maxSalesFilter = ""
  /\ limit = "all"
  /\ uploadError = ""
  /\ validRows = 0
  /\ isParsing = FALSE
  /\ reader = "idle"

Next ==
  \/ Mount
  \/ UploadOk
  \/ UploadFail
  \/ ResetUpload
  \/ \E id \in 1..Len(batches) : FetchReturn(id)
  \/ \E id \in 1..Len(batches) : DelayDone(id)
  \/ Reload

Spec == Init /\ [][Next]_vars

\* ---- the derived views: filteredData and displayData -----------------------
MaxShown == 3      \* resolved records on the page

\* item.pincode.toString(): the characters of a postal code.
ToChars(p) ==
  IF p = "110001" THEN <<"1", "1", "0", "0", "0", "1">>
  ELSE IF p = "560001" THEN <<"5", "6", "0", "0", "0", "1">>
  ELSE <<"9", "9", "9", "0", "0", "1">>

\* String.prototype.trim, on a sequence of characters.
RECURSIVE TrimStart(_)
TrimStart(s) == IF s # <<>> /\ Head(s) = " " THEN TrimStart(Tail(s)) ELSE s
RECURSIVE TrimEnd(_)
TrimEnd(s) ==
  IF s # <<>> /\ s[Len(s)] = " " THEN TrimEnd(SubSeq(s, 1, Len(s) - 1)) ELSE s
trim(s) == TrimEnd(TrimStart(s))

\* String.prototype.includes
includes(s, t) == \E k \in 0..(Len(s) - Len(t)) : SubSeq(s, k + 1, k + Len(t)) = t

\* Number(text): the empty text is 0, a numeral its value, anything else NaN.
Numerals == ("1" :> 1) @@ ("2" :> 2) @@ ("3" :> 3) @@ ("100" :> 100)
Num(n) == [kind |-> "num", val |-> n]
NotANumber == [kind |-> "nan", val |-> 0]
Absent == [kind |-> "null", val |-> 0]
Number(text) ==
  IF text = "" THEN Num(0)
  ELSE IF text \in DOMAIN Numerals THEN Num(Numerals[text])
  ELSE NotANumber

normalizedSearch == trim(searchTerm)
minFilterValue == IF minSalesFilter = "" THEN Absent ELSE Number(minSalesFilter)
maxFilterValue == IF maxSalesFilter = "" THEN Absent ELSE Number(maxSalesFilter)

matchesSearch(item) ==
  IF normalizedSearch # <<>> THEN includes(ToChars(item.pincode), normalizedSearch) ELSE TRUE

\* A slip: the lower bound is exclusive.
matchesMinExclusive(item) ==
  IF minFilterValue.kind = "null" THEN TRUE
  ELSE minFilterValue.kind = "num" /\ item.sales > minFilterValue.val

\* item.sales >= minFilterValue (a comparison with NaN is false)
matchesMin(item) ==
  IF minFilterValue.kind = "null" THEN TRUE
  ELSE minFilterValue.kind = "num" /\ item.sales >= minFilterValue.val

matchesMax(item) ==
  IF maxFilterValue.kind = "null" THEN TRUE
  ELSE maxFilterValue.kind = "num" /\ item.sales <= maxFilterValue.val

filteredData ==
  SelectSeq(geocodedData,
            LAMBDA item : matchesSearch(item) /\ matchesMin(item) /\ matchesMax(item))

\* A slip: the comparator orders by sales ascending.
compareSalesAscending(a, b) == a.sales - b.sales

\* (a, b) => b.sales - a.sales
compareSales(a, b) == b.sales - a.sales

\* Array.prototype.sort is stable (ECMAScript 2019): an element goes behind
\* every element the comparator does not put after it.
RECURSIVE InsertInOrder(_, _)
InsertInOrder(q, x) ==
  IF q = <<>> THEN <<x>>
  ELSE IF compareSales(Head(q), x) <= 0 THEN <<Head(q)>> \o InsertInOrder(Tail(q), x)
  ELSE <<x>> \o q
RECURSIVE sort(_)
sort(q) ==
  IF q = <<>> THEN <<>>
  ELSE InsertInOrder(sort(SubSeq(q, 1, Len(q) - 1)), q[Len(q)])

\* Array.prototype.slice(0, end): a negative end counts from the end.
slice(q, end) ==
  LET k == IF end < 0 THEN (IF Len(q) + end < 0 THEN 0 ELSE Len(q) + end)
           ELSE (IF end > Len(q) THEN Len(q) ELSE end)
  IN SubSeq(q, 1, k)

sorted == sort(filteredData)
displayData ==
  IF limit = "all" THEN sorted
  ELSE LET limitValue == Number(limit) IN
       IF limitValue.kind = "nan" THEN sorted ELSE slice(sorted, limitValue.val)

\* The resolved records the views are computed on: any codes, any sales.
SalesValues == {1, 2, 3}
CoordOf(c) == IF c \in SeedCodes THEN pincodeCoordinates[c] ELSE ApiCoord(c)
ShownRecords ==
  {[pincode |-> c, sales |-> v, coordinates |-> CoordOf(c)] : c \in DataCodes, v \in SalesValues}
ResolvedSets == SeqsUpTo(ShownRecords, MaxShown)

\* What the controls can hold.  The two sales boxes are number inputs: empty
\* or a numeral.  The select offers "all" and numerals ("1" and "2" stand for
\* a limit below the number of records, "100" for one above); the empty and
\* the non-numeric text are the other values displayData is defined on.
SearchTerms == {<<>>, <<"1", "1">>, <<" ", "1", "1", " ">>, <<" ">>, <<"9">>}
SalesInputs == {"", "2", "3"}
LimitValues == {"all", "1", "2", "100", "", "abc"}

loadState == <<data, uploadedData, hasFile, geocodedData, loading, geocodeProgress,
               memoryCache, storage, batches, starts, reloads, lastWriter,
               apiSession, apiStored>>

\* onChange of the search box
SetSearchTerm(text) ==
  /\ searchTerm' = text
  /\ UNCHANGED <<minSalesFilter, maxSalesFilter, limit>>
  /\ UNCHANGED loadState
  /\ UNCHANGED uploadControls

\* onChange of the minimum-sales box
SetMinSalesFilter(text) ==
  /\ minSalesFilter' = text
  /\ UNCHANGED <<searchTerm, maxSalesFilter, limit>>
  /\ UNCHANGED loadState
  /\ UNCHANGED uploadControls

\* onChange of the maximum-sales box
SetMaxSalesFilter(text) ==
  /\ maxSalesFilter' = text
  /\ UNCHANGED <<searchTerm, minSalesFilter, limit>>
  /\ UNCHANGED loadState
  /\ UNCHANGED uploadControls

\* onChange of the limit select
SetLimit(value) ==
  /\ limit' = value
  /\ UNCHANGED <<searchTerm, minSalesFilter, maxSalesFilter>>
  /\ UNCHANGED loadState
  /\ UNCHANGED uploadControls

\* A slip: clearing the filters also drops the resolved records.
handleClearFiltersAndRecords ==
  /\ searchTerm' = <<>>
  /\ minSalesFilter' = ""
  /\ maxSalesFilter' = ""
  /\ limit' = "all"
  /\ geocodedData' = <<>>
  /\ UNCHANGED <<data, uploadedData, hasFile, loading, geocodeProgress, memoryCache,
                 storage, batches, starts, reloads, lastWriter, apiSession, apiStored>>
  /\ UNCHANGED uploadControls

handleClearFilters ==
  /\ searchTerm' = <<>>
  /\ minSalesFilter' = ""
  /\ maxSalesFilter' = ""
  /\ limit' = "all"
  /\ UNCHANGED loadState
  /\ UNCHANGED uploadControls

\* A page whose load has settled with some resolved records.
ViewInit ==
  /\ geocodedData \in ResolvedSets
  /\ data = <<>>
  /\ uploadedData = <<>>
  /\ hasFile = FALSE
  /\ loading = FALSE
  /\ geocodeProgress = Progress(0, 0, 0)
  /\ memoryCache = EmptyMap
  /\ storage = Stored("missing", EmptyMap)
  /\ batches = <<>>
  /\ starts = 0
  /\ reloads = 0
  /\ lastWriter = "none"
  /\ apiSession = {}
  /\ apiStored = {}
  /\ searchTerm = <<>>
  /\ minSalesFilter = ""
  /\ maxSalesFilter = ""
  /\ limit = "all"
  /\ uploadError = ""
  /\ validRows = 0
  /\ isParsing = FALSE
  /\ reader = "idle"

ViewNext ==
  \/ \E text \in SearchTerms : SetSearchTerm(text)
  \/ \E text \in SalesInputs : SetMinSalesFilter(text)
  \/ \E text \in SalesInputs : SetMaxSalesFilter(text)
  \/ \E value \in LimitValues : SetLimit(value)
  \/ handleClearFilters

ViewSpec == ViewInit /\ [][ViewNext]_vars

\* ---- the derived values: statistics, marker styling, heat buckets -----------
\* A quotient of two integers, kept exact: num / den.
Frac(n, d) == [num |-> n, den |-> d]
Same(x, y) == x.num * y.den = y.num * x.den
Less(x, y) == x.num * y.den < y.num * x.den
AtMost(x, y) == x.num * y.den <= y.num * x.den

\* Math.min(...values) and Math.max(...values) of a non-empty list
MathMin(q) == CHOOSE v \in {q[i] : i \in 1..Len(q)} : \A i \in 1..Len(q) : v <= q[i]
MathMax(q) == CHOOSE v \in {q[i] : i \in 1..Len(q)} : \A i \in 1..Len(q) : v >= q[i]
SalesList(q) == [i \in 1..Len(q) |-> q[i].sales]

\* displayData.reduce((sum, item) => sum + item.sales, 0)
RECURSIVE Reduce(_)
Reduce(q) == IF q = <<>> THEN 0 ELSE Reduce(SubSeq(q, 1, Len(q) - 1)) + q[Len(q)].sales
totalSales == Reduce(displayData)

\* A slip: the quotient is taken whatever the number of records.
averageSalesUnguarded == Frac(totalSales, Len(displayData))

averageSales ==
  IF Len(displayData) > 0 THEN Frac(totalSales, Len(displayData)) ELSE Frac(0, 1)

maxDisplaySales == IF Len(displayData) > 0 THEN MathMax(SalesList(displayData)) ELSE 0

\* The scale of the markers.
salesValues == IF Len(displayData) > 0 THEN SalesList(displayData) ELSE <<0>>
minSales == IF Len(salesValues) > 0 THEN MathMin(salesValues) ELSE 0
maxSales == IF Len(salesValues) > 0 THEN MathMax(salesValues) ELSE 1

\* A color is a sequence: the neutral one, or "rgb" and its three channels.
NeutralColor == <<"#3388ff">>
\* Math.floor of a quotient with a positive denominator
Floor(x) == x.num \div x.den
getColor(sales) ==
  IF maxSales = minSales THEN NeutralColor
  ELSE LET n == sales - minSales
           d == maxSales - minSales
       IN <<"rgb", Floor(Frac(50 * d + 205 * n, d)),
                   Floor(Frac(100 * (d - n), d)),
                   Floor(Frac(200 * d + 55 * (d - n), d))>>

\* A slip: no case for a scale of one value.
getRadiusNoGuard(sales) ==
  Frac(5 * (maxSales - minSales) + 20 * (sales - minSales), maxSales - minSales)

getRadius(sales) ==
  IF maxSales = minSales THEN Frac(8, 1)
  ELSE Frac(5 * (maxSales - minSales) + 20 * (sales - minSales), maxSales - minSales)

\* The heat layer.
minValue == MathMin(SalesList(displayData))
maxValue == MathMax(SalesList(displayData))
range == LET values == SalesList(displayData) IN MathMax(values) - MathMin(values)
ratio(item) ==
  LET d == range IN IF d = 0 THEN Frac(1, 2) ELSE Frac(item.sales - minValue, d)

\* A slip: the intensity is the ratio itself.
intensityFromZero(item) ==
  LET d == range IN IF d = 0 THEN Frac(6, 10) ELSE Frac(item.sales - minValue, d)

\* 0.2 + 0.8 * ratio
intensity(item) ==
  LET d == range IN
  IF d = 0 THEN Frac(6, 10) ELSE Frac(d + 4 * (item.sales - minValue), 5 * d)

\* A slip: two buckets only.
bucketIndexTwoWay(item) ==
  LET r == ratio(item) IN IF Less(r, Frac(33, 100)) THEN 0 ELSE 1

bucketIndex(item) ==
  LET r == ratio(item) IN
  IF Less(r, Frac(33, 100)) THEN 0 ELSE IF Less(r, Frac(66, 100)) THEN 1 ELSE 2

buckets ==
  <<[id |-> "low", radius |-> 18, blur |-> 14],
    [id |-> "mid", radius |-> 28, blur |-> 20],
    [id |-> "high", radius |-> 38, blur |-> 26]>>
\* the points pushed to bucket k, in the order of displayData
PointsOf(k) ==
  LET sel == SelectSeq(displayData, LAMBDA item : bucketIndex(item) = k)
  IN [i \in 1..Len(sel) |->
        <<sel[i].coordinates[1], sel[i].coordinates[2], intensity(sel[i])>>]
heatmapGroups ==
  IF Len(displayData) = 0 THEN <<>>
  ELSE LET filled == [k \in 1..3 |->
                        [id |-> buckets[k].id, radius |-> buckets[k].radius,
                         blur |-> buckets[k].blur, points |-> PointsOf(k - 1)]]
       IN SelectSeq(filled, LAMBDA bucket : Len(bucket.points) > 0)

\* The resolved records the derived values are computed on: sales over a
\* scale with an interior value, and the coordinates a record can carry: a
\* pair of numbers, the pair of NaN of an answer without lat and lon, and the
\* pair of null that pair becomes in the durable layer.
ScaleValues == {10, 50, 100}
ScaleRecords ==
  {[pincode |-> c, sales |-> v, coordinates |-> CoordOf(c)] :
     c \in DataCodes, v \in ScaleValues}
  \cup {[pincode |-> "999001", sales |-> 50, coordinates |-> <<NaN, NaN>>],
        [pincode |-> "999001", sales |-> 10, coordinates |-> <<null, null>>]}
ScaleSets == SeqsUpTo(ScaleRecords, MaxShown)

DerivedInit ==
  /\ geocodedData \in ScaleSets
  /\ data = <<>>
  /\ uploadedData = <<>>
  /\ hasFile = FALSE
  /\ loading = FALSE
  /\ geocodeProgress = Progress(0, 0, 0)
  /\ memoryCache = EmptyMap
  /\ storage = Stored("missing", EmptyMap)
  /\ batches = <<>>
  /\ starts = 0
  /\ reloads = 0
  /\ lastWriter = "none"
  /\ apiSession = {}
  /\ apiStored = {}
  /\ searchTerm = <<>>
  /\ minSalesFilter = ""
  /\ maxSalesFilter = ""
  /\ limit = "all"
  /\ uploadError = ""
  /\ validRows = 0
  /\ isParsing = FALSE
  /\ reader = "idle"

DerivedSpec == DerivedInit /\ [][ViewNext]_vars

\* ---- CSV export and the CSV reader -------------------------------------------
\* A text is a sequence of characters.
DigitChars == <<"0", "1", "2", "3", "4", "5", "6", "7", "8", "9">>
RECURSIVE IntChars(_)
IntChars(n) ==
  IF n < 10 THEN <<DigitChars[n + 1]>>
  ELSE IntChars(n \div 10) \o <<DigitChars[(n % 10) + 1]>>
\* String(number): the shortest decimal that reads back as the number.
DecimalChars(x) ==
  IF x = "28.6139" THEN <<"2", "8", ".", "6", "1", "3", "9">>
  ELSE IF x = "77.2090" THEN <<"7", "7", ".", "2", "0", "9">>
  ELSE IF x = "12.9716" THEN <<"1", "2", ".", "9", "7", "1", "6">>
  ELSE IF x = "77.5946" THEN <<"7", "7", ".", "5", "9", "4", "6">>
  ELSE IF x = "11.0168" THEN <<"1", "1", ".", "0", "1", "6", "8">>
  ELSE <<"7", "6", ".", "9", "5", "5", "8">>
\* What Array.prototype.join writes for an element: nothing for null, the
\* characters of String(element) otherwise.
CoordinateChars(x) ==
  IF x = null THEN <<>>
  ELSE IF x = NaN THEN <<"N", "a", "N">>
  ELSE DecimalChars(x)

RECURSIVE join(_, _)
join(parts, separator) ==
  IF parts = <<>> THEN <<>>
  ELSE IF Len(parts) = 1 THEN parts[1]
  ELSE join(SubSeq(parts, 1, Len(parts) - 1), separator) \o separator \o parts[Len(parts)]

header == <<<<"p", "i", "n", "c", "o", "d", "e">>, <<"s", "a", "l", "e", "s">>,
            <<"l", "a", "t">>, <<"l", "n", "g">>>>
exportRow(item) ==
  <<ToChars(item.pincode), IntChars(item.sales),
    CoordinateChars(item.coordinates[1]), CoordinateChars(item.coordinates[2])>>
\* the text handleExportCsv puts into the download
handleExportCsv ==
  LET shown == displayData
      rows == [i \in 1..Len(shown) |-> exportRow(shown[i])]
      lines == [i \in 1..(Len(rows) + 1) |->
                  join(IF i = 1 THEN header ELSE rows[i - 1], <<",">>)]
  IN join(lines, <<"\n">>)

\* text.replace(/\r\n/g, "\n").replace(/\r/g, "\n")
RECURSIVE NormalizeFrom(_, _)
NormalizeFrom(text, i) ==
  IF i > Len(text) THEN <<>>
  ELSE IF text[i] = "\r" THEN
    <<"\n">> \o NormalizeFrom(text, IF i < Len(text) /\ text[i + 1] = "\n" THEN i + 2 ELSE i + 1)
  ELSE <<text[i]>> \o NormalizeFrom(text, i + 1)
normalized(text) ==
  IF \A i \in 1..Len(text) : text[i] # "\r" THEN text ELSE NormalizeFrom(text, 1)

\* String.prototype.split on a one-character separator
split(text, separator) ==
  LET at == {i \in 1..Len(text) : text[i] = separator}
      cut(k) == IF k = 0 THEN 0
                ELSE IF k = Cardinality(at) + 1 THEN Len(text) + 1
                ELSE CHOOSE i \in at : Cardinality({j \in at : j < i}) = k - 1
  IN [k \in 1..(Cardinality(at) + 1) |-> SubSeq(text, cut(k - 1) + 1, cut(k) - 1)]

parseCsvText(text) ==
  LET lines == SelectSeq(split(normalized(text), "\n"), LAMBDA line : trim(line) # <<>>)
  IN [i \in 1..Len(lines) |->
        LET cells == split(lines[i], ",") IN [k \in 1..Len(cells) |-> trim(cells[k])]]

\* ---- the upload controls -----------------------------------------------------
\* The file input, the FileReader and the reset button, step by step.  The
\* runs of loadData that a change of sourceData starts are the subject of
\* Spec; here the page is followed through its upload state alone.
loadRuns == <<data, geocodedData, loading, geocodeProgress, memoryCache, storage,
              batches, starts, reloads, lastWriter, apiSession, apiStored>>

\* handleUpload with a file chosen: setIsParsing(true); reader.readAsText(file).
\* The input is disabled while isParsing.
handleUpload ==
  /\ ~isParsing
  /\ isParsing' = TRUE
  /\ reader' = "reading"
  /\ UNCHANGED <<uploadedData, hasFile, uploadError, validRows>>
  /\ UNCHANGED filters
  /\ UNCHANGED loadRuns

\* reader.onload with a text parseCsvFile accepts.
ReaderOnloadParsed(rows) ==
  /\ reader = "reading"
  /\ uploadedData' = rows
  /\ hasFile' = TRUE
  /\ validRows' = Len(rows)
  /\ uploadError' = ""
  /\ searchTerm' = <<>>
  /\ minSalesFilter' = ""
  /\ maxSalesFilter' = ""
  /\ limit' = "all"
  /\ isParsing' = FALSE
  /\ reader' = "idle"
  /\ UNCHANGED loadRuns

\* reader.onload with a text parseCsvFile throws on.
ReaderOnloadRejected ==
  /\ reader = "reading"
  /\ uploadError' = ParseFailed
  /\ uploadedData' = <<>>
  /\ hasFile' = TRUE
  /\ validRows' = 0
  /\ isParsing' = FALSE
  /\ reader' = "idle"
  /\ UNCHANGED filters
  /\ UNCHANGED loadRuns

\* reader.onerror
ReaderOnerror ==
  /\ reader = "reading"
  /\ uploadError' = ReadFailed
  /\ isParsing' = FALSE
  /\ reader' = "idle"
  /\ UNCHANGED <<uploadedData, hasFile, validRows>>
  /\ UNCHANGED filters
  /\ UNCHANGED loadRuns

\* handleResetUpload; the button is there while uploadMeta.hasFile.
handleResetUpload ==
  /\ hasFile
  /\ uploadedData' = <<>>
  /\ hasFile' = FALSE
  /\ validRows' = 0
  /\ uploadError' = ""
  /\ searchTerm' = <<>>
  /\ minSalesFilter' = ""
  /\ maxSalesFilter' = ""
  /\ limit' = "all"
  /\ UNCHANGED <<isParsing, reader>>
  /\ UNCHANGED loadRuns

\* The page as it is mounted, with any bundled dataset.
UploadInit ==
  /\ data \in BundledSets
  /\ uploadedData = <<>>
  /\ hasFile = FALSE
  /\ geocodedData = <<>>
  /\ loading = TRUE
  /\ geocodeProgress = Progress(0, 0, 0)
  /\ memoryCache = EmptyMap
  /\ storage = Stored("missing", EmptyMap)
  /\ batches = <<>>
  /\ starts = 0
  /\ reloads = 0
  /\ lastWriter = "none"
  /\ apiSession = {}
  /\ apiStored = {}
  /\ searchTerm = <<>>
  /\ minSalesFilter = ""
  /\ maxSalesFilter = ""
  /\ limit = "all"
  /\ uploadError = ""
  /\ validRows = 0
  /\ isParsing = FALSE
  /\ reader = "idle"

UploadNext ==
  \/ handleUpload
  \/ \E rows \in UploadSets : ReaderOnloadParsed(rows)
  \/ ReaderOnloadRejected
  \/ ReaderOnerror
  \/ handleResetUpload

UploadSpec == UploadInit /\ [][UploadNext]_vars

\* ---- properties -------------------------------------------------------------
Last(q) == q[Len(q)]
Runs == 1..Len(batches)
AllDone == Len(batches) >= 1 /\ \A i \in Runs : batches[i].pc = "done"
\* A lookup that the service or the transport failed, or answered unusably.
FailedOutcomes == {"neterr", "badjson", "notarray", "empty", "nolatlon"}
\* The durable storage holds what the program writes or leaves, or unreadable text.
StorageIsMapping == storage.kind \notin {"null", "prim"}

\* C1: once every started run has returned, the visible state (geocodedData,
\* geocodeProgress, loading) is the result of the current run alone: its
\* resolved list, its last progress, loading false.
C1_FinalStateIsCurrentBatch ==
  AllDone =>
    /\ geocodedData = batches[current].geocoded
    /\ geocodeProgress = Last(batches[current].emitted)
    /\ loading = FALSE

\* C2: a run that has been superseded never calls a state setter: the last
\* writer of the visible state is always the run that was current when it wrote.
C2_OnlyCurrentBatchWrites == lastWriter # "superseded"

\* C3: at most one lookup call is outstanding and at most one run is executing.
C3_StrictlySequential ==
  /\ Cardinality({i \in Runs : batches[i].pc = "fetch"}) <= 1
  /\ Cardinality({i \in Runs : ~Finished(batches[i])}) <= 1

\* C4: in every run the emitted processed value never exceeds total, and it
\* equals total at one emission only, the last one of a run that has completed.
C4_ProcessedReachesTotalOnce ==
  \A i \in Runs :
    LET e == batches[i].emitted IN
    /\ \A k \in 1..Len(e) :
         /\ e[k].current <= e[k].total
         /\ e[k].current = e[k].total => (k = Len(e) /\ batches[i].pc = "done")
    /\ batches[i].pc = "done" => Last(e).current = Last(e).total

\* C5: the emissions of a run are processed = 0, 1, 2, ...: the first has
\* processed 0 and failures 0, each later one adds one to processed, failures
\* never decreases, total is the same throughout; and the run has emitted one
\* progress per record it has gone past.
C5_ProgressSequence ==
  \A i \in Runs :
    LET e == batches[i].emitted IN
    /\ Len(e) = batches[i].index + 1
    /\ e[1].current = 0 /\ e[1].failures = 0
    /\ \A k \in 2..Len(e) :
         /\ e[k].current = e[k - 1].current + 1
         /\ e[k].failures >= e[k - 1].failures
         /\ e[k].total = e[1].total

C5_Witness ==
  \E i \in Runs :
    /\ batches[i].pc = "done"
    /\ Len(batches[i].emitted) = 3
    /\ batches[i].emitted[2].failures = 1
    /\ batches[i].emitted[3].failures = 1

\* C6: with the durable storage a mapping (or missing or unreadable), every
\* resolution of a code of the static table returns the table's coordinate,
\* from the cache or from the table, and issues no lookup call.
C6_SeedResolvesWithoutCall ==
  StorageIsMapping =>
    \A i \in Runs : \A k \in 1..Len(batches[i].results) :
      LET r == batches[i].results[k] IN
      r.code \in SeedCodes =>
        /\ r.coords = pincodeCoordinates[r.code]
        /\ r.calls = 0
        /\ r.source \in {"cache", "seed"}
        /\ batches[i].pc # "crashed"

\* A seed code answered from the durable layer in a later page session.
C6_Witness ==
  \E i \in Runs : \E k \in 1..Len(batches[i].results) :
    LET r == batches[i].results[k] IN
    /\ r.code \in SeedCodes
    /\ r.source = "cache"
    /\ r.coords = pincodeCoordinates[r.code]
    /\ reloads = 1
    /\ storage.kind = "map"

\* What C7 promises of a resolution: the coordinate the service gave, from
\* the cache, with no call (and so no wait for the service or the timer).
CacheHit(r) ==
  /\ r.source = "cache"
  /\ r.coords = ApiCoord(r.code)
  /\ r.calls = 0

\* C7: a code resolved through the service is a cache hit, with the same
\* coordinate, in every later resolution within the durable-cache lifetime of
\* its entry: in the same page session, and in a later page session when the
\* entry reached the durable layer.
C7_CachedAfterApi ==
  \A i \in Runs : \A k \in 1..Len(batches[i].results) :
    batches[i].results[k].prior # {} => CacheHit(batches[i].results[k])

\* C8: after a failed lookup, failures is one more than at the last emission
\* and the record is not in the run's resolved list (resolved + failures
\* accounts for every record gone past, this one included).
C8_FailureCountedAndSkipped ==
  \A i \in Runs :
    LET b == batches[i] IN
    (b.pc = "delay" /\ Last(b.results).outcome \in FailedOutcomes) =>
      /\ b.failures = Last(b.emitted).failures + 1
      /\ Len(b.geocoded) + b.failures = b.index + 1

\* C9: every visible resolved record has finite latitude and longitude, and
\* neither cache layer holds a coordinate that is not finite.
C9_ResolvedCoordinatesFinite ==
  /\ \A k \in 1..Len(geocodedData) : FiniteCoords(geocodedData[k].coordinates)
  /\ \A c \in Codes : memoryCache[c] # None => FiniteCoords(memoryCache[c])
  /\ \A c \in Codes : storage.map[c] # None => FiniteCoords(storage.map[c])

\* C10: whatever the durable storage holds, no cache get or set raises an
\* error: no run is ended by an exception.
C10_StorageNeverFatal == \A i \in Runs : batches[i].pc # "crashed"

\* The resolutions of run i that are over (the last one of a run that waits
\* for the service is not).
Completed(i) ==
  {k \in 1..Len(batches[i].results) :
     ~(batches[i].pc = "fetch" /\ k = Len(batches[i].results))}
\* What JSON.stringify writes of a coordinate, read back.
AsStored(coords) == <<JsonNumber(coords[1]), JsonNumber(coords[2])>>

\* C11: every cache set a resolution makes leaves the entry in the memory
\* layer and, when setItem goes through, in the durable layer (as JSON writes
\* it); whether setItem goes through or fails, the set raises nothing and the
\* resolution returns the coordinate it cached.
C11_SetWritesBothLayers ==
  \A i \in Runs : \A k \in Completed(i) :
    LET r == batches[i].results[k] IN
    r.set.done # "none" =>
      /\ r.set.done = "done"
      /\ r.coords # None
      /\ r.set.mem = r.coords
      /\ r.set.writeOk => r.set.sto = AsStored(r.coords)

\* C12: in every run a resolution is followed by the 300 ms wait exactly when
\* it issued a lookup call; a run that waits has just resolved, through a call,
\* a record that came without coordinates (so no wait follows a record that
\* carries coordinates, a cache hit or a seed hit).
C12_DelayIffLookupCall ==
  \A i \in Runs :
    LET b == batches[i] IN
    /\ \A k \in Completed(i) : b.results[k].delayed <=> (b.results[k].calls = 1)
    /\ b.pc = "delay" =>
         /\ b.input[b.index + 1].coordinates = None
         /\ Last(b.results).calls = 1
         /\ Last(b.results).code = b.input[b.index + 1].pincode

\* A run that has gone past a seed hit without a wait and a lookup with one.
C12_Witness ==
  \E i \in Runs :
    LET b == batches[i] IN
    /\ b.pc = "done"
    /\ Len(b.results) = 2
    /\ b.results[1].source = "seed" /\ ~b.results[1].delayed
    /\ b.results[2].calls = 1 /\ b.results[2].delayed

\* C13: no run waits the 300 ms after its final record: a run that waits has
\* at least one more record to process.
C13_NoDelayAfterFinalRecord ==
  \A i \in Runs :
    batches[i].pc = "delay" => batches[i].index + 1 < Len(batches[i].input)

\* The records of sequence q that carry the coordinates they came with.
PreResolvedIn(q) == {k \in 1..Len(q) : q[k] = PreRec}

\* C14: a record that carries coordinates is taken into the resolved list as
\* it is, and nothing else happens for it: no resolution is made for its code
\* (no cache get, no table lookup, no call), no run waits after it, neither
\* cache layer gets an entry for its code, and it counts as one record gone past.
C14_PreResolvedAcceptedAsIs ==
  /\ memoryCache[PreCode] = None
  /\ storage.map[PreCode] = None
  /\ \A i \in Runs :
       LET b == batches[i] IN
       /\ \A k \in 1..Len(b.results) : b.results[k].code # PreCode
       /\ b.pc = "delay" => b.input[b.index + 1] # PreRec
       /\ Cardinality(PreResolvedIn(b.geocoded))
            = Cardinality(PreResolvedIn(SubSeq(b.input, 1, b.index)))
       /\ Len(b.emitted) = b.index + 1

\* A run that went past a record with coordinates and then a looked-up one.
C14_Witness ==
  \E i \in Runs :
    LET b == batches[i] IN
    /\ b.pc = "done"
    /\ b.input = <<PreRec, Rec("999001")>>
    /\ b.geocoded[1] = PreRec
    /\ Len(b.results) = 1
    /\ b.emitted[2] = Progress(1, 1, 0)

\* The resolution the run made for its k-th input record (one without coordinates).
ResultOf(b, k) ==
  b.results[Cardinality({j \in 1..k : b.input[j].coordinates = None})]
\* The k-th input record resolved: it carried coordinates or its lookup gave some.
IsResolved(b, k) == b.input[k].coordinates # None \/ ResultOf(b, k).coords # None
AsResolved(b, k) ==
  IF b.input[k].coordinates # None THEN b.input[k]
  ELSE [b.input[k] EXCEPT !.coordinates = ResultOf(b, k).coords]
\* The records among the first n input records that resolved, in input order.
RECURSIVE ResolvedAmong(_, _)
ResolvedAmong(b, n) ==
  IF n = 0 THEN <<>>
  ELSE IF IsResolved(b, n) THEN Append(ResolvedAmong(b, n - 1), AsResolved(b, n))
  ELSE ResolvedAmong(b, n - 1)
\* The records a run has taken the result of: those counted by its last
\* emission and, while it waits the 300 ms, the one before the next emission.
GonePast(b) == IF b.pc = "delay" THEN b.index + 1 ELSE b.index

\* C15: the resolved list of a run is exactly the records that resolved among
\* those it has gone past, in input order, and with its failures accounts for
\* each of them; at an emission, processed is that number.  A run alone on the
\* page shows its partial list from the first record it resolves.
C15_PartialListIsResolvedPrefix ==
  \A i \in Runs :
    LET b == batches[i] IN
    /\ b.geocoded = ResolvedAmong(b, GonePast(b))
    /\ Len(b.geocoded) + b.failures = GonePast(b)
    /\ b.pc # "delay" =>
         /\ Last(b.emitted).current = GonePast(b)
         /\ Last(b.emitted).failures = b.failures
    /\ (Len(batches) = 1 /\ Len(b.geocoded) >= 1) => geocodedData = b.geocoded

\* The first record is on the map while the lookup of the second is outstanding.
C15_Witness ==
  /\ Len(batches) = 1
  /\ batches[1].pc = "fetch"
  /\ batches[1].index = 1
  /\ Len(batches[1].geocoded) = 1
  /\ geocodedData = batches[1].geocoded
  /\ loading

\* C16: a run on an empty (or absent) dataset is over when it starts: it has
\* made no resolution, its resolved list is empty and its only emission is
\* {0, 0, 0}; and as long as no other run has written since, the page shows
\* an empty list, progress {0, 0, 0} and loading false.
C16_EmptyBatchSettlesAtOnce ==
  /\ \A i \in Runs :
       LET b == batches[i] IN
       Len(b.input) = 0 =>
         /\ b.pc = "done"
         /\ b.results = <<>>
         /\ b.geocoded = <<>>
         /\ b.emitted = <<Progress(0, 0, 0)>>
  /\ (Len(batches) >= 1 /\ Len(batches[current].input) = 0 /\ lastWriter = "current") =>
       /\ geocodedData = <<>>
       /\ geocodeProgress = Progress(0, 0, 0)
       /\ loading = FALSE

\* A rejected upload while the lookup of the bundled data is outstanding.
C16_Witness ==
  /\ Len(batches) = 2
  /\ batches[1].pc = "fetch"
  /\ Len(batches[2].input) = 0
  /\ batches[2].pc = "done"
  /\ hasFile
  /\ geocodedData = <<>>
  /\ loading = FALSE

\* C17: a run that has not settled is waiting for a lookup call (or for the
\* 300 ms timer that follows one); a run that waits for neither has processed
\* every record of its input and has settled.
C17_StallsOnlyOnCall ==
  \A i \in Runs :
    LET b == batches[i] IN
    b.pc \notin {"fetch", "delay"} =>
      /\ b.pc = "done"
      /\ b.index = Len(b.input)
      /\ Len(b.geocoded) + b.failures = Len(b.input)

\* The bounds of the filter as numbers: absent when the box is empty.
HasMin == minSalesFilter # ""
HasMax == maxSalesFilter # ""
MinSales == Numerals[minSalesFilter]
MaxSales == Numerals[maxSalesFilter]
Contains(item, term) == term = <<>> \/ includes(ToChars(item.pincode), term)
InBounds(item) ==
  /\ HasMin => item.sales >= MinSales
  /\ HasMax => item.sales <= MaxSales

\* C18 as stated: the filtered set is the resolved records whose code contains
\* the search term as typed (or the term is empty) and whose sales are within
\* the inclusive bounds.
C18_FilteredBySearchTermAsTyped ==
  filteredData =
    SelectSeq(geocodedData, LAMBDA item : Contains(item, searchTerm) /\ InBounds(item))

\* C18, amended: the filtered set is the resolved records, in their order,
\* whose code contains the search term with the white space around it removed
\* (or that trimmed term is empty) and whose sales are within the bounds, both
\* inclusive: sales equal to a bound is in, sales one below the minimum is out.
C18_FilteredSet ==
  /\ filteredData =
       SelectSeq(geocodedData, LAMBDA item : Contains(item, trim(searchTerm)) /\ InBounds(item))
  /\ \A k \in 1..Len(geocodedData) :
       LET item == geocodedData[k] IN
       /\ (HasMin /\ item.sales = MinSales - 1) =>
            \A j \in 1..Len(filteredData) : filteredData[j] # item
       /\ (HasMin /\ item.sales = MinSales /\ Contains(item, trim(searchTerm))
              /\ (HasMax => item.sales <= MaxSales)) =>
            \E j \in 1..Len(filteredData) : filteredData[j] = item
       /\ (HasMax /\ item.sales = MaxSales /\ Contains(item, trim(searchTerm))
              /\ (HasMin => item.sales >= MinSales)) =>
            \E j \in 1..Len(filteredData) : filteredData[j] = item

\* A minimum of 2 with a record at 2 (kept) and one at 1 (dropped), and a
\* search term typed with spaces around it.
C18_Witness ==
  /\ minSalesFilter = "2"
  /\ searchTerm = <<" ", "1", "1", " ">>
  /\ Len(geocodedData) = 3
  /\ geocodedData[1].sales = 1 /\ geocodedData[1].pincode = "110001"
  /\ geocodedData[2].sales = 2 /\ geocodedData[2].pincode = "110001"
  /\ geocodedData[3].sales = 3 /\ geocodedData[3].pincode = "999001"
  /\ filteredData = <<geocodedData[2]>>

\* The place of the k-th record of q in the order by sales descending, ties in
\* the order of q: behind every record with more sales and every earlier
\* record with the same sales.
Rank(q, k) ==
  Cardinality({j \in 1..Len(q) : q[j].sales > q[k].sales})
    + Cardinality({j \in 1..k : q[j].sales = q[k].sales})

\* C19: the display set before limiting holds each record of the filtered
\* set once, at the place its sales (descending) and, among equal sales, its
\* position in the filtered set give it; with limit "all" that is the display set.
C19_SortedBySalesStable ==
  /\ Len(sorted) = Len(filteredData)
  /\ \A k \in 1..Len(filteredData) : sorted[Rank(filteredData, k)] = filteredData[k]
  /\ \A k \in 1..(Len(sorted) - 1) : sorted[k].sales >= sorted[k + 1].sales
  /\ limit = "all" => displayData = sorted

\* Two records of different codes with equal sales, in front of a larger one,
\* all three within the bounds set.
C19_Witness ==
  /\ limit = "all"
  /\ minSalesFilter = "2"
  /\ Len(geocodedData) = 3
  /\ Len(filteredData) = 3
  /\ filteredData[1].sales = 2 /\ filteredData[1].pincode = "999001"
  /\ filteredData[2].sales = 2 /\ filteredData[2].pincode = "110001"
  /\ filteredData[3].sales = 3
  /\ displayData = <<filteredData[3], filteredData[1], filteredData[2]>>

SalesCount(v) == Cardinality({i \in 1..Len(displayData) : displayData[i].sales = v})
SalesSum == 10 * SalesCount(10) + 50 * SalesCount(50) + 100 * SalesCount(100)

\* C21: totalSales is the sum of sales over the display set, averageSales is
\* that sum divided by the number of displayed records and the maximum is the
\* largest displayed sales value; with an empty display set all three are 0
\* and no quotient with a zero divisor is formed.
C21_Statistics ==
  LET n == Len(displayData) IN
  /\ totalSales = SalesSum
  /\ averageSales.den # 0
  /\ averageSales.num * n = SalesSum * averageSales.den
  /\ n > 0 => /\ \E i \in 1..n : displayData[i].sales = maxDisplaySales
              /\ \A i \in 1..n : displayData[i].sales <= maxDisplaySales
  /\ n = 0 => totalSales = 0 /\ averageSales.num = 0 /\ maxDisplaySales = 0
C21_Witness ==
  /\ Len(geocodedData) = 3
  /\ limit = "100"
  /\ SalesList(displayData) = <<100, 50, 10>>
  /\ totalSales = 160
  /\ Same(averageSales, Frac(160, 3))
  /\ maxDisplaySales = 100

\* The bucket a sales value belongs to by the position of the value between
\* the least and the greatest displayed value (the middle one when they agree).
Least(q) == CHOOSE v \in {q[i].sales : i \in 1..Len(q)} : \A i \in 1..Len(q) : v <= q[i].sales
Greatest(q) == CHOOSE v \in {q[i].sales : i \in 1..Len(q)} : \A i \in 1..Len(q) : v >= q[i].sales
BucketOf(q, v) ==
  LET lo == Least(q)
      hi == Greatest(q)
  IN IF hi = lo THEN "mid"
     ELSE IF 100 * (v - lo) < 33 * (hi - lo) THEN "low"
     ELSE IF 100 * (v - lo) < 66 * (hi - lo) THEN "mid"
     ELSE "high"
PointsIn(groups, b) ==
  LET found == {k \in 1..Len(groups) : groups[k].id = b}
  IN IF found = {} THEN 0 ELSE Len(groups[CHOOSE k \in found : TRUE].points)

\* C22: the heat buckets partition the display set: every displayed record
\* gives one point to the one bucket its ratio selects (low below 0.33, mid
\* below 0.66, high otherwise), the points of all buckets number the display
\* set, no returned bucket is empty, and an empty display set gives no bucket.
C22_BucketsPartitionDisplaySet ==
  LET shown == displayData
      groups == heatmapGroups
  IN /\ Len(shown) = 0 => groups = <<>>
     /\ \A k \in 1..Len(groups) : Len(groups[k].points) > 0
     /\ \A k, l \in 1..Len(groups) : groups[k].id = groups[l].id => k = l
     /\ \A k \in 1..Len(groups) : groups[k].id \in {"low", "mid", "high"}
     /\ \A b \in {"low", "mid", "high"} :
          PointsIn(groups, b) =
            Cardinality({i \in 1..Len(shown) : BucketOf(shown, shown[i].sales) = b})
     /\ PointsIn(groups, "low") + PointsIn(groups, "mid") + PointsIn(groups, "high")
          = Len(shown)
C22_Witness ==
  /\ Len(geocodedData) = 3
  /\ searchTerm = <<"9">>
  /\ SalesList(displayData) = <<100, 50, 10>>
  /\ LET groups == heatmapGroups
     IN Len(groups) = 3 /\ \A b \in {"low", "mid", "high"} : PointsIn(groups, b) = 1

\* The intensity 0.2 + 0.8 * ratio of a sales value v among the records q.
ExpectedIntensity(q, v) ==
  LET lo == Least(q)
      hi == Greatest(q)
  IN IF hi = lo THEN Frac(3, 5) ELSE Frac((hi - lo) + 4 * (v - lo), 5 * (hi - lo))
RECURSIVE AllPoints(_)
AllPoints(groups) ==
  IF groups = <<>> THEN <<>> ELSE Head(groups).points \o AllPoints(Tail(groups))
\* Every point carries the intensity of a displayed record, as many points
\* per sales value as there are records of that value.
IntensityLaw(shown, groups) ==
  LET points == AllPoints(groups) IN
  /\ \A j \in 1..Len(points) :
       AtMost(Frac(1, 5), points[j][3]) /\ AtMost(points[j][3], Frac(1, 1))
  /\ \A v \in {shown[i].sales : i \in 1..Len(shown)} :
       Cardinality({j \in 1..Len(points) : Same(points[j][3], ExpectedIntensity(shown, v))})
         = Cardinality({i \in 1..Len(shown) :
                          Same(ExpectedIntensity(shown, shown[i].sales),
                               ExpectedIntensity(shown, v))})
  /\ Len(shown) > 0 /\ Greatest(shown) # Least(shown) =>
       /\ Same(ExpectedIntensity(shown, Least(shown)), Frac(1, 5))
       /\ Same(ExpectedIntensity(shown, Greatest(shown)), Frac(1, 1))
  /\ Len(shown) > 0 /\ Greatest(shown) = Least(shown) =>
       /\ Len(groups) = 1
       /\ groups[1].id = "mid"
       /\ Len(groups[1].points) = Len(shown)
       /\ \A j \in 1..Len(points) : Same(points[j][3], Frac(6, 10))
\* The intensities of the points of the records with sales 10, 50 and 100.
ExampleIntensities(shown, groups, middle) ==
  {shown[i].sales : i \in 1..Len(shown)} = {10, 50, 100} =>
    /\ Len(groups) = 3
    /\ \A j \in 1..Len(groups[1].points) : Same(groups[1].points[j][3], Frac(1, 5))
    /\ \A j \in 1..Len(groups[2].points) : Same(groups[2].points[j][3], middle)
    /\ \A j \in 1..Len(groups[3].points) : Same(groups[3].points[j][3], Frac(1, 1))

\* C23 as stated: every heat point's intensity is 0.2 + 0.8 x ratio within
\* [0.2, 1.0], 0.2 for the least and 1.0 for the greatest sales, 0.6 in a
\* single mid bucket when all sales agree, and for sales 10, 50, 100 the
\* intensities are 0.2, 0.55 and 1.0.
C23_IntensityAsStated ==
  LET shown == displayData
      groups == heatmapGroups
  IN IntensityLaw(shown, groups) /\ ExampleIntensities(shown, groups, Frac(55, 100))

\* C23: every heat point's intensity is 0.2 + 0.8 x ratio within [0.2, 1.0],
\* 0.2 for the least and 1.0 for the greatest sales, 0.6 in a single mid
\* bucket when all sales agree, and for sales 10, 50, 100 the intensities are
\* 0.2, 5/9 and 1.0.
C23_Intensity ==
  LET shown == displayData
      groups == heatmapGroups
  IN IntensityLaw(shown, groups) /\ ExampleIntensities(shown, groups, Frac(5, 9))
C23_Witness ==
  /\ Len(geocodedData) = 3
  /\ maxSalesFilter = "" /\ minSalesFilter = "3"
  /\ SalesList(displayData) = <<100, 50, 10>>
  /\ LET groups == heatmapGroups
     IN /\ Len(groups) = 3
        /\ groups[2].id = "mid"
        /\ Same(groups[2].points[1][3], Frac(5, 9))

\* The sales values the styling functions are asked about.
StyleArguments == ScaleValues \cup {0, 1000}

\* C24: when all displayed records share one sales value, and when the
\* display set is empty, getColor returns the neutral color and getRadius
\* exactly 8 for every argument; otherwise every displayed record gets the
\* radius 5 + 20 x ratio within [5, 25] and color channels that are integers
\* within [0, 255].
C24_MarkerStyle ==
  LET shown == displayData
      flat == shown = <<>> \/ Greatest(shown) = Least(shown)
  IN /\ flat => \A v \in StyleArguments :
                  getColor(v) = NeutralColor /\ getRadius(v) = Frac(8, 1)
     /\ ~flat => \A i \in 1..Len(shown) :
          LET v == shown[i].sales
              lo == Least(shown)
              hi == Greatest(shown)
              radius == getRadius(v)
              color == getColor(v)
          IN /\ radius.den # 0
             /\ radius.num * (hi - lo) = (5 * (hi - lo) + 20 * (v - lo)) * radius.den
             /\ AtMost(Frac(5, 1), radius) /\ AtMost(radius, Frac(25, 1))
             /\ Len(color) = 4 /\ color[1] = "rgb"
             /\ \A k \in 2..4 : color[k] \in 0..255
C24_Witness ==
  /\ Len(geocodedData) = 3
  /\ limit = "100"
  /\ SalesList(displayData) = <<100, 50, 10>>
  /\ Same(getRadius(50), Frac(125, 9))
  /\ getColor(50) = <<"rgb", 141, 55, 230>>
  /\ getColor(10) = <<"rgb", 50, 100, 255>>
  /\ getColor(100) = <<"rgb", 255, 0, 200>>

\* The number a cell reads as: nothing for the empty cell of a null, NaN, a
\* whole number, or a decimal.
RECURSIVE WholeNumber(_)
WholeNumber(cell) ==
  IF cell = <<>> THEN 0
  ELSE 10 * WholeNumber(SubSeq(cell, 1, Len(cell) - 1))
       + (CHOOSE d \in 0..9 : DigitChars[d + 1] = cell[Len(cell)])
IsWhole(cell) ==
  cell # <<>> /\ \A i \in 1..Len(cell) : \E d \in 1..10 : DigitChars[d] = cell[i]
ReadsAsCoordinate(cell, x) ==
  IF x = null THEN FALSE
  ELSE IF x = NaN THEN cell = <<"N", "a", "N">>
  ELSE \E s \in NumericStrings : DecimalChars(s) = cell /\ DecimalChars(s) = DecimalChars(x)
RoundTrip(shown, rows) ==
  /\ Len(rows) = Len(shown) + 1
  /\ \A i \in 1..Len(rows) : Len(rows[i]) = 4
  /\ rows[1] = header
  /\ \A i \in 1..Len(shown) :
       /\ rows[i + 1][1] = ToChars(shown[i].pincode)
       /\ IsWhole(rows[i + 1][2]) /\ WholeNumber(rows[i + 1][2]) = shown[i].sales
       /\ ReadsAsCoordinate(rows[i + 1][3], shown[i].coordinates[1])
       /\ ReadsAsCoordinate(rows[i + 1][4], shown[i].coordinates[2])

\* C25: the export of a display set of N records is the header row
\* pincode,sales,lat,lng followed by N rows in display order, and the CSV
\* reader turns the text back into N + 1 rows of 4 fields whose values are
\* the pincode, sales, latitude and longitude of the records.
C25_ExportRoundTrip ==
  LET shown == displayData IN RoundTrip(shown, parseCsvText(handleExportCsv))

\* ---- ingestion ---------------------------------------------------------------
\* C26: in every batch handed to loadData, from an uploaded file or from the
\* bundled dataset, each postal code occurs at most once (the rows of a code
\* having been summed into one record).
C26_OneRecordPerCode ==
  \A i \in Runs : \A j, k \in 1..Len(batches[i].input) :
    j # k => batches[i].input[j].pincode # batches[i].input[k].pincode

\* ---- filters and the load ----------------------------------------------------
\* C27: a change of the search term, of a sales bound or of the limit, and a
\* reset of the filters, leave the resolved records, the source records, the
\* progress and both cache layers as they are and start no run of loadData.
C27_FiltersLeaveLoadAlone == [][loadState' = loadState]_vars
C27_Witness ==
  /\ Len(geocodedData) = 3
  /\ minSalesFilter = "2"
  /\ limit = "1"
  /\ Len(displayData) = 1
  /\ batches = <<>> /\ starts = 0

\* ---- the cache layers --------------------------------------------------------
Gets == UNION {{batches[i].results[k].get : k \in 1..Len(batches[i].results)} : i \in Runs}
\* One get by the claim: memory first, then durable with promotion, then absent.
GetByLayers(g) ==
  /\ g.memory # None => ~g.threw /\ g.value = g.memory /\ g.after = g.memory /\ g.others
  /\ g.memory = None /\ g.durable # None =>
       ~g.threw /\ g.value = g.durable /\ g.after = g.durable /\ g.others
  /\ g.memory = None /\ g.durable = None =>
       ~g.threw /\ g.value = None /\ g.after = None /\ g.others

\* C28: a cache get returns the memory layer's entry when there is one, without
\* reading the durable layer; on a memory miss with a durable hit it returns
\* the durable entry and the memory layer holds it afterwards; on a miss in
\* both layers it returns absent and changes neither layer.
C28_GetByLayers == \A g \in Gets : GetByLayers(g)

\* The entry of code c in the durable layer.
DurableEntry(sto, c) == IF sto.kind = "map" THEN sto.map[c] ELSE None
\* Between two reloads of the page no entry of either layer goes away or
\* changes; the durable layer keeps its entries across reloads, too.
EntriesKept ==
  /\ reloads' = reloads =>
       \A c \in Codes : memoryCache[c] # None => memoryCache'[c] = memoryCache[c]
  /\ \A c \in Codes :
       DurableEntry(storage, c) # None => DurableEntry(storage', c) = DurableEntry(storage, c)
\* A resolution that found the code in the seed table only has written the
\* table's coordinate to the memory layer and, unless setItem failed, to the
\* durable layer, and the run's next resolution of the code is a cache hit.
SeedWrittenThrough ==
  \A i \in Runs : \A k \in 1..Len(batches[i].results) :
    LET r == batches[i].results[k] IN
    r.code \in SeedCodes /\ r.get.memory = None /\ r.get.durable = None =>
      /\ r.source = "seed"
      /\ r.coords = pincodeCoordinates[r.code]
      /\ r.set.done = "done"
      /\ r.set.mem = pincodeCoordinates[r.code]
      /\ r.set.writeOk => r.set.sto = pincodeCoordinates[r.code]
      /\ \A l \in (k + 1)..Len(batches[i].results) :
           batches[i].results[l].code = r.code => batches[i].results[l].source = "cache"

\* C29: a seed-table hit writes the seed coordinate through to both cache
\* layers, so that the next resolution of the code is a cache hit, and no
\* operation removes a cache entry or replaces it by a different value.
C29_WriteThroughNoEviction == [][EntriesKept /\ SeedWrittenThrough']_vars

\* A resolution that asked the service and came back without a coordinate, or
\* whose answer was unusable.
FailedLookup(r) == r.calls = 1 /\ (r.coords = None \/ r.outcome \in FailedOutcomes)

OwnStorage(sto) == sto.kind \in {"missing", "map"}
\* Every code that has an entry in both layers has the same coordinate in both.
LayersAgree(mem, sto) ==
  \A c \in Codes : mem[c] # None /\ DurableEntry(sto, c) # None => mem[c] = DurableEntry(sto, c)
\* Every code of the memory layer has an entry in the durable layer.
MemoryInDurable(mem, sto) ==
  \A c \in Codes : mem[c] # None => DurableEntry(sto, c) # None
\* No cache set logged by a run in flight was refused by setItem.
NoWriteRefused(runs) ==
  \A i \in 1..Len(runs) : \A k \in 1..Len(runs[i].results) :
    runs[i].results[k].set.done = "done" => runs[i].results[k].set.writeOk

\* C31: with the durable storage written by the program alone, after every
\* step the coordinates of a code that is in both layers are equal, and as
\* long as no durable write is refused every code of the memory layer is in
\* the durable layer.
C31_LayersNeverDisagree ==
  [][OwnStorage(storage) /\ OwnStorage(storage') =>
       /\ LayersAgree(memoryCache', storage')
       /\ MemoryInDurable(memoryCache, storage) /\ NoWriteRefused(batches')
            => MemoryInDurable(memoryCache', storage')]_vars

\* ---- the visible list and the runs -------------------------------------------
\* g is made of records of input, in the order of input, each with the
\* coordinates it carried or the coordinates it was resolved to.
InOrderFrom(g, input) ==
  \E f \in [1..Len(g) -> 1..Len(input)] :
    /\ \A j, k \in 1..Len(g) : j < k => f[j] < f[k]
    /\ \A j \in 1..Len(g) :
         /\ g[j].pincode = input[f[j]].pincode
         /\ g[j].sales = input[f[j]].sales
         /\ g[j].coordinates # None
         /\ input[f[j]].coordinates # None => g[j].coordinates = input[f[j]].coordinates

\* C32: in every state, also while runs overlap, the visible list is the
\* list of one run: every step that changes geocodedData sets it to the
\* resolved list of one of the runs (or empties it on a reload of the page),
\* and the resolved list of a run is made of records of that run's input
\* alone, in input order.
C32_VisibleListOfOneRun ==
  [][/\ geocodedData' # geocodedData =>
          \/ reloads' # reloads /\ geocodedData' = <<>>
          \/ \E i \in 1..Len(batches') : geocodedData' = batches'[i].geocoded
     /\ \A i \in 1..Len(batches') : InOrderFrom(batches'[i].geocoded, batches'[i].input)]_vars
C32_Witness ==
  /\ Len(batches) = 2
  /\ batches[1].pc # "done" /\ batches[2].pc # "done"
  /\ batches[1].input # batches[2].input
  /\ Len(geocodedData) >= 1
  /\ geocodedData = batches[1].geocoded
  /\ batches[2].geocoded # <<>>
  /\ geocodedData # batches[2].geocoded

\* ---- the upload state machine ------------------------------------------------
\* C33: after any sequence of uploads, read errors, parse failures and
\* resets, an upload error is recorded only while an upload is marked present,
\* the source of loadData is the uploaded records exactly when hasFile, after a
\* successful parse (an upload present with no error recorded) validRows is
\* the number of uploaded records, at least 1, and isParsing is false once the
\* read is over.
C33_UploadStateMachine ==
  /\ uploadError # "" => hasFile
  /\ hasFile => sourceData = uploadedData
  /\ ~hasFile => sourceData = data
  /\ hasFile /\ uploadError = "" => validRows = Len(uploadedData) /\ validRows >= 1
  /\ reader = "idle" => ~isParsing

====
